---- MODULE Spec2Model ----
(***************************************************************************)
(* Model of the RuCOS portable kernel (kernel/src/kernel.rs, task.rs).     *)
(* Every kernel method is a pure operator from a kernel record to a result *)
(* record [k, ret, val, panic]; the actions of the state machine apply     *)
(* these operators to inputs drawn from small sets.                        *)
(***************************************************************************)
EXTENDS Integers, Sequences, FiniteSets, TLC

\* ---- configuration -------------------------------------------------------

\* const generic of Kernel<SP, TICK, MAX_NUM_TASKS>, as instantiated in tests::setup
MAX_NUM_TASKS == 2

\* bounds of the inputs
MaxId == 2
MaxPriority == 1
MaxTick == 2

TaskIds == 0..MaxId
Priorities == 0..MaxPriority
\* SP is opaque to the kernel: two distinct values tell a saved pointer from a stale one
StackPtrs == {1, 2}
\* delay of sleep and elapsed of tick_update are of type TICK
Delays == 0..MaxTick
Elapsed == 1..MaxTick

\* ---- Option<T> -----------------------------------------------------------

None == <<>>
Some(x) == <<x>>
unwrap(o) == o[1]

\* ---- task.rs -------------------------------------------------------------

TaskState == {"Pending", "Ready", "Running"}

NotPending == <<"NotPending">>
Suspended == <<"Suspended">>
Sleep(t) == <<"Sleep", t>>

Task(id, priority, stack_ptr, state, pend) ==
    [id |-> id, priority |-> priority, stack_ptr |-> stack_ptr,
     state |-> state, pend |-> pend]

\* variant: the comparison of priorities reversed
task_lt_reversed(a, b) == a.priority > b.priority

\* impl PartialOrd for Task: tasks compare by priority only
task_lt(a, b) == a.priority < b.priority

is_runnable(task) == task.state = "Ready" \/ task.state = "Running"

\* ---- kernel.rs: state ----------------------------------------------------

VARIABLES is_running, tick_counter, task_list, curr_task_id, next_task_id,
          panic, op, ret, ret_val

\* cortex-m/src/lib.rs: the PendSV pending bit of the SCB, and the part of
\* tick_counter that a get_current_tick in progress has loaded so far
VARIABLES pendsv, tick_read

port_vars == <<pendsv, tick_read>>

vars == <<is_running, tick_counter, task_list, curr_task_id, next_task_id,
          panic, op, ret, ret_val, pendsv, tick_read>>

\* the fields of struct Kernel as one record
Kernel == [is_running |-> is_running, tick_counter |-> tick_counter,
           task_list |-> task_list, curr_task_id |-> curr_task_id,
           next_task_id |-> next_task_id]

NoPanic == ""

\* result of a method that returned
Returned(k, r, v) == [k |-> k, ret |-> r, val |-> v, panic |-> NoPanic]
\* result of a method that panicked, with the kernel as the panic left it
Panicked(k, msg) == [k |-> k, ret |-> FALSE, val |-> 0, panic |-> msg]

new == [is_running |-> FALSE, tick_counter |-> 0, task_list |-> <<>>,
        curr_task_id |-> None, next_task_id |-> None]

\* ---- kernel.rs: private helpers ------------------------------------------

\* position of the first task with this id, 0 when there is none
RECURSIVE position(_, _, _)
position(list, id, i) ==
    IF i > Len(list) THEN 0
    ELSE IF list[i].id = id THEN i
    ELSE position(list, id, i + 1)

find_task_idx(list, id) == position(list, id, 1)
find_task(list, id) == position(list, id, 1)

\* heapless::Vec::remove
remove(list, idx) ==
    [i \in 1..(Len(list) - 1) |-> IF i < idx THEN list[i] ELSE list[i + 1]]

\* variant: the timeout compared one tick early
timeout_reached_early(tick, timeout) == tick + 1 >= timeout

\* variant: a timeout is reached only after its tick
timeout_reached_late(tick, timeout) == tick > timeout

\* the test of update_pending_tasks on a Sleep(timeout)
timeout_reached(tick, timeout) == tick >= timeout

\* variant: the sweep makes the task Ready and keeps its pend reason
update_pending_tasks_keep_pend(list, tick) ==
    [i \in 1..Len(list) |->
        IF list[i].pend[1] = "Sleep" /\ tick >= list[i].pend[2]
        THEN [list[i] EXCEPT !.state = "Ready"]
        ELSE list[i]]

update_pending_tasks(list, tick) ==
    [i \in 1..Len(list) |->
        IF list[i].pend[1] = "Sleep" /\ timeout_reached(tick, list[i].pend[2])
        THEN [list[i] EXCEPT !.state = "Ready", !.pend = NotPending]
        ELSE list[i]]

\* the loop of find_highest_priority_runnable_task; best is Option<&Task>
RECURSIVE highest_scan(_, _, _)
highest_scan(list, i, best) ==
    IF i > Len(list) THEN best
    ELSE LET task == list[i]
             nbest == IF is_runnable(task)
                      THEN IF best = None THEN Some(task)
                           ELSE IF task_lt(task, unwrap(best)) THEN Some(task)
                           ELSE best
                      ELSE best
         IN  highest_scan(list, i + 1, nbest)

find_highest_priority_runnable_task(list) ==
    LET best == highest_scan(list, 1, None)
    IN  IF best = None THEN None ELSE Some(unwrap(best).id)

\* variant: "All tasks pending" leaves next_task_id as it was
scheduler_keeps_next(k) ==
    IF ~k.is_running THEN Returned(k, FALSE, 0)
    ELSE LET swept == update_pending_tasks(k.task_list, k.tick_counter)
             found == find_highest_priority_runnable_task(swept)
             next == IF found = None THEN k.next_task_id
                     ELSE IF k.curr_task_id = None THEN found
                     ELSE IF unwrap(k.curr_task_id) = unwrap(found) THEN None
                     ELSE found
             k2 == [k EXCEPT !.task_list = swept, !.next_task_id = next]
         IN  Returned(k2, ~(found = None), 0)

\* variant: the scheduler does not look at is_running
scheduler_before_start(k) ==
    LET swept == update_pending_tasks(k.task_list, k.tick_counter)
        found == find_highest_priority_runnable_task(swept)
        next == IF found = None THEN None
                ELSE IF k.curr_task_id = None THEN found
                ELSE IF unwrap(k.curr_task_id) = unwrap(found) THEN None
                ELSE found
        k2 == [k EXCEPT !.task_list = swept, !.next_task_id = next]
    IN  Returned(k2, ~(next = None), 0)

\* variant: the task is selected before the wake sweep
scheduler_selects_before_sweep(k) ==
    IF ~k.is_running THEN Returned(k, FALSE, 0)
    ELSE LET swept == update_pending_tasks(k.task_list, k.tick_counter)
             found == find_highest_priority_runnable_task(k.task_list)
             next == IF found = None THEN None
                     ELSE IF k.curr_task_id = None THEN found
                     ELSE IF unwrap(k.curr_task_id) = unwrap(found) THEN None
                     ELSE found
             k2 == [k EXCEPT !.task_list = swept, !.next_task_id = next]
         IN  Returned(k2, ~(next = None), 0)

\* variant: the return value says that a task was found
scheduler_reports_found(k) ==
    IF ~k.is_running THEN Returned(k, FALSE, 0)
    ELSE LET swept == update_pending_tasks(k.task_list, k.tick_counter)
             found == find_highest_priority_runnable_task(swept)
             next == IF found = None THEN None
                     ELSE IF k.curr_task_id = None THEN found
                     ELSE IF unwrap(k.curr_task_id) = unwrap(found) THEN None
                     ELSE found
             k2 == [k EXCEPT !.task_list = swept, !.next_task_id = next]
         IN  Returned(k2, ~(found = None), 0)

scheduler(k) ==
    IF ~k.is_running THEN Returned(k, FALSE, 0)
    ELSE LET swept == update_pending_tasks(k.task_list, k.tick_counter)
             found == find_highest_priority_runnable_task(swept)
             next == IF found = None THEN None
                     ELSE IF k.curr_task_id = None THEN found
                     ELSE IF unwrap(k.curr_task_id) = unwrap(found) THEN None
                     ELSE found
             k2 == [k EXCEPT !.task_list = swept, !.next_task_id = next]
         IN  Returned(k2, ~(next = None), 0)

\* ---- kernel.rs: public methods -------------------------------------------

\* variant: no check of the id
create_unchecked_id(k, id, priority, stack_ptr) ==
    IF Len(k.task_list) >= MAX_NUM_TASKS
    THEN Panicked(k, "Number of tasks exceeds MAX_NUM_TASKS")
    ELSE scheduler([k EXCEPT !.task_list =
            Append(@, Task(id, priority, stack_ptr, "Ready", NotPending))])

create(k, id, priority, stack_ptr) ==
    IF find_task_idx(k.task_list, id) # 0
    THEN Panicked(k, "The task ID is not unique")
    ELSE IF Len(k.task_list) >= MAX_NUM_TASKS
    THEN Panicked(k, "Number of tasks exceeds MAX_NUM_TASKS")
    ELSE scheduler([k EXCEPT !.task_list =
            Append(@, Task(id, priority, stack_ptr, "Ready", NotPending))])

\* variant: the scheduler is not run after the removal
delete_without_scheduler(k, id) ==
    IF k.curr_task_id = None THEN Panicked(k, "Kernel not running")
    ELSE LET curr_task_idx == find_task_idx(k.task_list, unwrap(k.curr_task_id))
             task_idx == IF id = None THEN curr_task_idx
                         ELSE find_task_idx(k.task_list, unwrap(id))
         IN  IF curr_task_idx = 0 \/ task_idx = 0
             THEN Panicked(k, "Task does not exist")
             ELSE Returned([k EXCEPT
                    !.task_list = remove(@, task_idx),
                    !.curr_task_id = IF curr_task_idx = task_idx THEN None ELSE @],
                    FALSE, 0)

\* variant: curr_task_id is cleared only when the current task is meant by None
delete_by_id_keeps_current(k, id) ==
    IF k.curr_task_id = None THEN Panicked(k, "Kernel not running")
    ELSE LET curr_task_idx == find_task_idx(k.task_list, unwrap(k.curr_task_id))
             task_idx == IF id = None THEN curr_task_idx
                         ELSE find_task_idx(k.task_list, unwrap(id))
         IN  IF curr_task_idx = 0 \/ task_idx = 0
             THEN Panicked(k, "Task does not exist")
             ELSE scheduler([k EXCEPT
                    !.task_list = remove(@, task_idx),
                    !.curr_task_id = IF id = None THEN None ELSE @])

\* id is Option<usize>
delete(k, id) ==
    IF k.curr_task_id = None THEN Panicked(k, "Kernel not running")
    ELSE LET curr_task_idx == find_task_idx(k.task_list, unwrap(k.curr_task_id))
             task_idx == IF id = None THEN curr_task_idx
                         ELSE find_task_idx(k.task_list, unwrap(id))
         IN  IF curr_task_idx = 0 \/ task_idx = 0
             THEN Panicked(k, "Task does not exist")
             ELSE scheduler([k EXCEPT
                    !.task_list = remove(@, task_idx),
                    !.curr_task_id = IF curr_task_idx = task_idx THEN None ELSE @])

\* variant: the outgoing task stays Running
demote_never(state) == state

\* the match on curr_task.state in handle_context_switch
demote(state) == IF state = "Running" THEN "Ready" ELSE state

\* variant: the committed decision is not cleared
handle_context_switch_keeps_next(k, updated_stack_ptr) ==
    LET ci == IF k.curr_task_id = None THEN 0
              ELSE find_task(k.task_list, unwrap(k.curr_task_id))
        saved == IF k.curr_task_id = None THEN k.task_list
                 ELSE [k.task_list EXCEPT
                        ![ci].stack_ptr = IF updated_stack_ptr = None THEN @
                                          ELSE unwrap(updated_stack_ptr),
                        ![ci].state = demote(@)]
    IN  IF k.curr_task_id # None /\ ci = 0
        THEN Panicked(k, "Task does not exist")
        ELSE IF k.next_task_id = None
        THEN Panicked([k EXCEPT !.task_list = saved], "No context switch required")
        ELSE LET ni == find_task(saved, unwrap(k.next_task_id))
             IN  IF ni = 0
                 THEN Panicked([k EXCEPT !.task_list = saved,
                                         !.curr_task_id = k.next_task_id],
                               "Task does not exist")
                 ELSE Returned([k EXCEPT
                                 !.task_list = [saved EXCEPT ![ni].state = "Running"],
                                 !.curr_task_id = k.next_task_id],
                               FALSE, saved[ni].stack_ptr)

\* variant: the stack pointer passed in is also written to the incoming task
handle_context_switch_saves_to_next(k, updated_stack_ptr) ==
    LET ci == IF k.curr_task_id = None THEN 0
              ELSE find_task(k.task_list, unwrap(k.curr_task_id))
        saved == IF k.curr_task_id = None THEN k.task_list
                 ELSE [k.task_list EXCEPT
                        ![ci].stack_ptr = IF updated_stack_ptr = None THEN @
                                          ELSE unwrap(updated_stack_ptr),
                        ![ci].state = demote(@)]
    IN  IF k.curr_task_id # None /\ ci = 0
        THEN Panicked(k, "Task does not exist")
        ELSE IF k.next_task_id = None
        THEN Panicked([k EXCEPT !.task_list = saved], "No context switch required")
        ELSE LET ni == find_task(saved, unwrap(k.next_task_id))
             IN  IF ni = 0
                 THEN Panicked([k EXCEPT !.task_list = saved,
                                         !.curr_task_id = k.next_task_id,
                                         !.next_task_id = None],
                               "Task does not exist")
                 ELSE Returned([k EXCEPT
                                 !.task_list = [saved EXCEPT
                                     ![ni].state = "Running",
                                     ![ni].stack_ptr =
                                         IF updated_stack_ptr = None THEN @
                                         ELSE unwrap(updated_stack_ptr)],
                                 !.curr_task_id = k.next_task_id,
                                 !.next_task_id = None],
                               FALSE, saved[ni].stack_ptr)

\* updated_stack_ptr is Option<SP>
handle_context_switch(k, updated_stack_ptr) ==
    LET ci == IF k.curr_task_id = None THEN 0
              ELSE find_task(k.task_list, unwrap(k.curr_task_id))
        saved == IF k.curr_task_id = None THEN k.task_list
                 ELSE [k.task_list EXCEPT
                        ![ci].stack_ptr = IF updated_stack_ptr = None THEN @
                                          ELSE unwrap(updated_stack_ptr),
                        ![ci].state = demote(@)]
    IN  IF k.curr_task_id # None /\ ci = 0
        THEN Panicked(k, "Task does not exist")
        ELSE IF k.next_task_id = None
        THEN Panicked([k EXCEPT !.task_list = saved], "No context switch required")
        ELSE LET ni == find_task(saved, unwrap(k.next_task_id))
             IN  IF ni = 0
                 THEN Panicked([k EXCEPT !.task_list = saved,
                                         !.curr_task_id = k.next_task_id,
                                         !.next_task_id = None],
                               "Task does not exist")
                 ELSE Returned([k EXCEPT
                                 !.task_list = [saved EXCEPT ![ni].state = "Running"],
                                 !.curr_task_id = k.next_task_id,
                                 !.next_task_id = None],
                               FALSE, saved[ni].stack_ptr)

\* variant: the first task is chosen and never installed
start_without_commit(k) ==
    IF k.is_running THEN Panicked(k, "Kernel already running")
    ELSE LET s == scheduler([k EXCEPT !.is_running = TRUE])
         IN  IF s.ret THEN Returned(s.k, FALSE, 0)
             ELSE Panicked(s.k, "No tasks created")

\* variant: no assertion that the kernel is not running yet
start_unchecked(k) ==
    LET s == scheduler([k EXCEPT !.is_running = TRUE])
    IN  IF s.ret THEN handle_context_switch(s.k, None)
        ELSE Panicked(s.k, "No tasks created")

start(k) ==
    IF k.is_running THEN Panicked(k, "Kernel already running")
    ELSE LET s == scheduler([k EXCEPT !.is_running = TRUE])
         IN  IF s.ret THEN handle_context_switch(s.k, None)
             ELSE Panicked(s.k, "No tasks created")

get_current_task(k) ==
    IF k.curr_task_id = None THEN Panicked(k, "Kernel not running")
    ELSE Returned(k, FALSE, unwrap(k.curr_task_id))

get_current_tick(k) == Returned(k, FALSE, k.tick_counter)

sleep(k, delay) ==
    LET new_tick_counter == k.tick_counter + delay
    IN  IF k.curr_task_id = None THEN Panicked(k, "Kernel not running")
        ELSE LET ci == find_task(k.task_list, unwrap(k.curr_task_id))
             IN  IF ci = 0 THEN Panicked(k, "Task does not exist")
                 ELSE scheduler([k EXCEPT
                        !.task_list[ci].state = "Pending",
                        !.task_list[ci].pend = Sleep(new_tick_counter)])

\* variant: a task that sleeps is left to its timeout
suspend_keeps_sleep(k, id) ==
    IF id = None /\ k.curr_task_id = None THEN Panicked(k, "Kernel not running")
    ELSE LET ti == find_task(k.task_list,
                             IF id = None THEN unwrap(k.curr_task_id) ELSE unwrap(id))
         IN  IF ti = 0 THEN Panicked(k, "Task does not exist")
             ELSE IF k.task_list[ti].pend[1] = "Sleep" THEN scheduler(k)
             ELSE scheduler([k EXCEPT
                    !.task_list[ti].state = "Pending",
                    !.task_list[ti].pend = Suspended])

\* id is Option<usize>
suspend(k, id) ==
    IF id = None /\ k.curr_task_id = None THEN Panicked(k, "Kernel not running")
    ELSE LET ti == find_task(k.task_list,
                             IF id = None THEN unwrap(k.curr_task_id) ELSE unwrap(id))
         IN  IF ti = 0 THEN Panicked(k, "Task does not exist")
             ELSE scheduler([k EXCEPT
                    !.task_list[ti].state = "Pending",
                    !.task_list[ti].pend = Suspended])

\* variant: the pend reason is not reset
resume_keeps_pend(k, id) ==
    LET ti == find_task(k.task_list, id)
    IN  IF ti = 0 THEN Panicked(k, "Task does not exist")
        ELSE scheduler([k EXCEPT !.task_list[ti].state = "Ready"])

\* variant: a sleeping task is left to its timeout
resume_suspended_only(k, id) ==
    LET ti == find_task(k.task_list, id)
    IN  IF ti = 0 THEN Panicked(k, "Task does not exist")
        ELSE IF k.task_list[ti].pend[1] = "Sleep" THEN scheduler(k)
        ELSE scheduler([k EXCEPT
               !.task_list[ti].state = "Ready",
               !.task_list[ti].pend = NotPending])

resume(k, id) ==
    LET ti == find_task(k.task_list, id)
    IN  IF ti = 0 THEN Panicked(k, "Task does not exist")
        ELSE scheduler([k EXCEPT
               !.task_list[ti].state = "Ready",
               !.task_list[ti].pend = NotPending])

\* variant: the scheduler runs before the counter is advanced
tick_update_late(k, elapsed) ==
    LET s == scheduler(k)
    IN  [s EXCEPT !.k.tick_counter = @ + elapsed]

tick_update(k, elapsed) ==
    scheduler([k EXCEPT !.tick_counter = @ + elapsed])

\* ---- the state machine: one action per kernel call ------------------------

\* the last call made: its name and the arguments that identify its target
Call(name, args) == [name |-> name, args |-> args]

\* the kernel takes the result r of a call; a panic halts the program
Take(r, call) ==
    /\ panic = NoPanic
    /\ is_running' = r.k.is_running
    /\ tick_counter' = r.k.tick_counter
    /\ task_list' = r.k.task_list
    /\ curr_task_id' = r.k.curr_task_id
    /\ next_task_id' = r.k.next_task_id
    /\ panic' = r.panic
    /\ ret' = r.ret
    /\ ret_val' = r.val
    /\ op' = call

\* a call made on the kernel alone: the port has no part in it
Apply(r, call) == Take(r, call) /\ UNCHANGED port_vars

OptionIds == {None} \cup {Some(id) : id \in TaskIds}
OptionStackPtrs == {None} \cup {Some(sp) : sp \in StackPtrs}

Init ==
    /\ is_running = new.is_running
    /\ tick_counter = new.tick_counter
    /\ task_list = new.task_list
    /\ curr_task_id = new.curr_task_id
    /\ next_task_id = new.next_task_id
    /\ panic = NoPanic
    /\ op = Call("new", <<>>)
    /\ ret = FALSE
    /\ ret_val = 0
    /\ pendsv = FALSE
    /\ tick_read = None

\* a create that panics does so on its id alone, so its other arguments are
\* enumerated only when it returns
Create ==
    \E id \in TaskIds :
        LET refused == create(Kernel, id, 0, 1)
        IN  IF refused.panic # NoPanic
            THEN Apply(refused, Call("create", <<id>>))
            ELSE \E priority \in Priorities, stack_ptr \in StackPtrs :
                    LET r == create(Kernel, id, priority, stack_ptr)
                    IN  Apply(r, Call("create", <<id>>))

Delete ==
    \E id \in OptionIds :
        LET r == delete(Kernel, id) IN Apply(r, Call("delete", id))

Start == LET r == start(Kernel) IN Apply(r, Call("start", <<>>))

\* wake ticks are capped one past the last tick the model reaches
SleepCall ==
    \E delay \in Delays :
        /\ tick_counter + delay <= MaxTick + 1
        /\ LET r == sleep(Kernel, delay) IN Apply(r, Call("sleep", <<delay>>))

Suspend ==
    \E id \in OptionIds :
        LET r == suspend(Kernel, id) IN Apply(r, Call("suspend", id))

Resume ==
    \E id \in TaskIds :
        LET r == resume(Kernel, id) IN Apply(r, Call("resume", <<id>>))

TickUpdate ==
    \E elapsed \in Elapsed :
        /\ tick_counter + elapsed <= MaxTick
        /\ LET r == tick_update(Kernel, elapsed)
           IN  Apply(r, Call("tick_update", <<elapsed>>))

HandleContextSwitch ==
    \E updated_stack_ptr \in OptionStackPtrs :
        LET r == handle_context_switch(Kernel, updated_stack_ptr)
        IN  Apply(r, Call("handle_context_switch", updated_stack_ptr))

GetCurrentTask ==
    LET r == get_current_task(Kernel) IN Apply(r, Call("get_current_task", <<>>))

GetCurrentTick ==
    LET r == get_current_tick(Kernel) IN Apply(r, Call("get_current_tick", <<>>))

\* the calls that change the kernel
Next ==
    \/ Create
    \/ Delete
    \/ Start
    \/ SleepCall
    \/ Suspend
    \/ Resume
    \/ TickUpdate
    \/ HandleContextSwitch

Spec == Init /\ [][Next]_vars

\* the same with the two read-only calls
NextObs ==
    \/ Next
    \/ GetCurrentTask
    \/ GetCurrentTick

SpecObs == Init /\ [][NextObs]_vars

\* ---- cortex-m/src/lib.rs: the idle task ------------------------------------

\* init creates the idle task with usize::MAX as id and as priority: the
\* largest id and the largest priority of the model
IdleId == MaxId
IdlePriority == MaxPriority

\* the kernel as init leaves it
init == create(new, IdleId, IdlePriority, 1).k

InitIdle ==
    /\ is_running = init.is_running
    /\ tick_counter = init.tick_counter
    /\ task_list = init.task_list
    /\ curr_task_id = init.curr_task_id
    /\ next_task_id = init.next_task_id
    /\ panic = NoPanic
    /\ op = Call("init", <<>>)
    /\ ret = FALSE
    /\ ret_val = 0
    /\ pendsv = FALSE
    /\ tick_read = None

\* the rule of init's note: the idle task does not block (it calls neither
\* sleep nor suspend(None)), and it is not deleted
IdleKeepsOff ==
    /\ curr_task_id = Some(IdleId) =>
          /\ op'.name # "sleep"
          /\ op' # Call("suspend", None)
          /\ op' # Call("delete", None)
    /\ op' # Call("delete", Some(IdleId))

\* the kernel calls of a program that was set up by init and keeps that rule
NextIdle ==
    \/ Create /\ IdleKeepsOff
    \/ Delete /\ IdleKeepsOff
    \/ Start /\ IdleKeepsOff
    \/ SleepCall /\ IdleKeepsOff
    \/ Suspend /\ IdleKeepsOff
    \/ Resume /\ IdleKeepsOff
    \/ TickUpdate /\ IdleKeepsOff
    \/ HandleContextSwitch /\ IdleKeepsOff

SpecIdle == InitIdle /\ [][NextIdle]_vars

\* ---- cortex-m/src/lib.rs: wrappers and exception handlers -----------------

\* the closure every wrapper but start, get_current_task and get_current_tick
\* passes to free: the kernel call, and set_pendsv when it returns true;
\* interrupts are disabled throughout, so it is one step
free(r, call) ==
    /\ Take(r, call)
    /\ pendsv' = (pendsv \/ r.ret)
    /\ UNCHANGED tick_read

\* thread mode runs only while no exception is pending, and the task that is
\* inside get_current_tick makes no other call
Thread ==
    /\ ~pendsv
    /\ tick_read # None => unwrap(tick_read).reader # curr_task_id

port_create ==
    /\ Thread
    /\ \E id \in TaskIds :
          LET refused == create(Kernel, id, 0, 1)
          IN  IF refused.panic # NoPanic
              THEN free(refused, Call("create", <<id>>))
              ELSE \E priority \in Priorities, stack_ptr \in StackPtrs :
                      free(create(Kernel, id, priority, stack_ptr),
                           Call("create", <<id>>))
    /\ IdleKeepsOff

port_delete ==
    /\ Thread
    /\ \E id \in OptionIds : free(delete(Kernel, id), Call("delete", id))
    /\ IdleKeepsOff

\* start calls the kernel outside free, and enables SysTick afterwards
port_start ==
    /\ Thread
    /\ Take(start(Kernel), Call("start", <<>>))
    /\ UNCHANGED port_vars

port_get_current_task ==
    /\ Thread
    /\ Take(get_current_task(Kernel), Call("get_current_task", <<>>))
    /\ UNCHANGED port_vars

\* TICK is u64 on a 32-bit core: tick_counter is two words. In the model the
\* low word rolls over at the last tick reached.
TickWord == MaxTick
lo_word(tick) == tick % TickWord
hi_word(tick) == tick \div TickWord

\* get_current_tick reads tick_counter outside free: the two words are
\* loaded one after the other, in the order the build chose
port_get_current_tick_begin ==
    /\ Thread
    /\ panic = NoPanic
    /\ tick_read = None
    /\ \E first \in {"lo", "hi"} :
          tick_read' = Some([reader |-> curr_task_id, begin |-> tick_counter,
                             first |-> first,
                             word |-> IF first = "lo" THEN lo_word(tick_counter)
                                      ELSE hi_word(tick_counter)])
    /\ UNCHANGED <<is_running, tick_counter, task_list, curr_task_id,
                   next_task_id, panic, op, ret, ret_val, pendsv>>

\* the second load, when the reader runs again; the call returns both words
port_get_current_tick_end ==
    /\ ~pendsv
    /\ tick_read # None
    /\ unwrap(tick_read).reader = curr_task_id
    /\ LET r == unwrap(tick_read)
           value == IF r.first = "lo"
                    THEN hi_word(tick_counter) * TickWord + r.word
                    ELSE r.word * TickWord + lo_word(tick_counter)
       IN  Take(Returned(Kernel, FALSE, value),
                Call("get_current_tick", <<r.begin>>))
    /\ tick_read' = None
    /\ UNCHANGED pendsv

port_sleep ==
    /\ Thread
    /\ \E delay \in Delays :
          /\ tick_counter + delay <= MaxTick + 1
          /\ free(sleep(Kernel, delay), Call("sleep", <<delay>>))
    /\ IdleKeepsOff

port_suspend ==
    /\ Thread
    /\ \E id \in OptionIds : free(suspend(Kernel, id), Call("suspend", id))
    /\ IdleKeepsOff

port_resume ==
    /\ Thread
    /\ \E id \in TaskIds : free(resume(Kernel, id), Call("resume", <<id>>))

\* the tick interrupt, enabled by start; it preempts thread mode and runs
\* before a pending PendSV, whose priority is the lowest
SysTick ==
    /\ is_running
    /\ tick_counter + 1 <= MaxTick
    /\ free(tick_update(Kernel, 1), Call("tick_update", <<1>>))

context_switch(curr_task_stack_ptr) ==
    handle_context_switch(Kernel, Some(curr_task_stack_ptr))

\* the deferred-switch trap: taken when its pending bit is set, which the
\* exception entry clears; it passes the process stack pointer
PendSV ==
    /\ pendsv
    /\ \E psp \in StackPtrs :
          Take(context_switch(psp), Call("handle_context_switch", Some(psp)))
    /\ pendsv' = FALSE
    /\ UNCHANGED tick_read

NextPort ==
    \/ port_create
    \/ port_delete
    \/ port_start
    \/ port_get_current_task
    \/ port_get_current_tick_begin
    \/ port_get_current_tick_end
    \/ port_sleep
    \/ port_suspend
    \/ port_resume
    \/ SysTick
    \/ PendSV

\* a program on the port: init, then any interleaving of wrapper calls made
\* in thread mode, SysTick and PendSV
SpecPort == InitIdle /\ [][NextPort]_vars

\* ---- vocabulary of the properties ---------------------------------------

Indices == DOMAIN task_list
LiveIds == {task_list[i].id : i \in Indices}
IndexOf(id) == CHOOSE i \in Indices : task_list[i].id = id
Returns == panic = NoPanic
MutatingCalls == {"create", "delete", "sleep", "suspend", "resume", "tick_update"}
AfterMutatingCall == Returns /\ op.name \in MutatingCalls
RunnableIdx == {i \in Indices : task_list[i].state \in {"Ready", "Running"}}
\* the runnable tasks no other runnable task has a smaller priority than
MinRunnableIdx ==
    {i \in RunnableIdx :
        \A j \in RunnableIdx : task_list[i].priority <= task_list[j].priority}
RunningIdx == {i \in Indices : task_list[i].state = "Running"}

\* ---- C1 ------------------------------------------------------------------
\* C1: after every mutating call that returns on a running kernel, the wake
\* sweep has left no expired sleep, and next_task_id is the scheduler's exact
\* decision: None when no task is runnable; otherwise, for a runnable task m
\* of smallest priority, Some(m.id) when m.id differs from curr_task_id and
\* None when it equals it. next_task_id never names a Pending task.
C1_SchedulerDecisionExact ==
    (AfterMutatingCall /\ is_running) =>
        /\ \A i \in Indices :
              task_list[i].pend[1] = "Sleep" => task_list[i].pend[2] > tick_counter
        /\ IF RunnableIdx = {} THEN next_task_id = None
           ELSE \E m \in MinRunnableIdx :
                   next_task_id = IF curr_task_id # Some(task_list[m].id)
                                  THEN Some(task_list[m].id)
                                  ELSE None
        /\ \A i \in Indices :
              next_task_id = Some(task_list[i].id) => task_list[i].state # "Pending"

\* a tick_update woke a sleeper that is now the smallest-priority runnable task
C1_Witness ==
    /\ AfterMutatingCall /\ is_running
    /\ op.name = "tick_update"
    /\ Len(task_list) = 2
    /\ task_list[1].priority # task_list[2].priority
    /\ RunnableIdx = {1, 2}
    /\ next_task_id # None
    /\ curr_task_id # None

\* ---- C2 ------------------------------------------------------------------
\* C2: in every reachable state at most one TCB is Running, and a Running TCB
\* is the one curr_task_id names.
C2_OneRunningIsCurrent ==
    /\ Cardinality(RunningIdx) <= 1
    /\ \A i \in RunningIdx : curr_task_id = Some(task_list[i].id)

\* a switch away from a task that was Running
C2_Witness ==
    /\ Returns
    /\ op = Call("handle_context_switch", Some(2))
    /\ Len(task_list) = 2
    /\ Cardinality(RunningIdx) = 1
    /\ \E i \in Indices : task_list[i].state = "Ready" /\ task_list[i].stack_ptr = 2

\* ---- C3 ------------------------------------------------------------------
\* C3: in every reachable state a TCB is Pending exactly when its pend reason
\* is Suspended or Sleep, and Ready or Running exactly when it is NotPending.
C3_StateMatchesPend ==
    \A i \in Indices :
        /\ task_list[i].state = "Pending"
              <=> task_list[i].pend[1] \in {"Suspended", "Sleep"}
        /\ task_list[i].state \in {"Ready", "Running"}
              <=> task_list[i].pend = NotPending

\* the switch promoted the next task while the outgoing one sleeps
C3_Witness ==
    /\ Returns
    /\ op.name = "handle_context_switch"
    /\ \E i \in Indices : task_list[i].state = "Running"
    /\ \E i \in Indices : task_list[i].state = "Pending"
                          /\ task_list[i].pend[1] = "Sleep"

\* ---- C4 ------------------------------------------------------------------
\* C4: a mutating call returns true exactly when next_task_id is Some on
\* return; a false return leaves next_task_id = None.
C4_VerdictMatchesNext ==
    AfterMutatingCall => (ret <=> next_task_id # None)

\* the current task suspended itself with nothing else runnable
C4_Witness ==
    /\ AfterMutatingCall /\ is_running
    /\ op = Call("suspend", None)
    /\ ~ret
    /\ next_task_id = None
    /\ Len(task_list) = 2
    /\ RunnableIdx = {}

\* ---- C5 ------------------------------------------------------------------

\* task id is selected: it is the next task or it is Running
Selected(list, next, id) ==
    \/ next = Some(id)
    \/ \E j \in DOMAIN list : list[j].id = id /\ list[j].state = "Running"

\* sleep(d) at tick T leaves the caller Pending until T + d, unless d = 0
SleepSetsWakeTick ==
    (op'.name = "sleep" /\ panic' = NoPanic /\ op'.args[1] > 0) =>
        \E i \in DOMAIN task_list' :
            /\ curr_task_id' = Some(task_list'[i].id)
            /\ task_list'[i].state = "Pending"
            /\ task_list'[i].pend = Sleep(tick_counter + op'.args[1])
            /\ next_task_id' # curr_task_id'

PrioritiesDistinct(list) ==
    \A i, j \in DOMAIN list : i # j => list[i].priority # list[j].priority

C6_PrioritiesDistinct == PrioritiesDistinct(task_list)

\* ---- C7 ------------------------------------------------------------------

IdsDistinct(list) ==
    \A i, j \in DOMAIN list : i # j => list[i].id # list[j].id

\* C7: create panics and adds no TCB when its id is live or task_list is
\* full, and only then; so in every state the ids of the live tasks are
\* pairwise distinct and there are at most MAX_NUM_TASKS of them.
C7_CreateGuardsIdsAndCapacity ==
    [][/\ IdsDistinct(task_list')
       /\ Len(task_list') <= MAX_NUM_TASKS
       /\ op'.name = "create" =>
            LET id == op'.args[1]
            IN  IF id \in LiveIds \/ Len(task_list) = MAX_NUM_TASKS
                THEN panic' # NoPanic /\ task_list' = task_list
                ELSE /\ panic' = NoPanic
                     /\ Len(task_list') = Len(task_list) + 1
                     /\ task_list'[Len(task_list')].id = id]_vars

\* create was refused an id that is live, in a list that still has room
C7_Witness ==
    /\ op.name = "create"
    /\ panic = "The task ID is not unique"
    /\ Len(task_list) < MAX_NUM_TASKS
    /\ op.args[1] \in LiveIds

\* ---- C8 ------------------------------------------------------------------
\* C8: tick_counter never decreases; tick_update(elapsed) adds exactly
\* elapsed, and does so before its wake sweep; no other call changes it,
\* and neither do the read-only calls from any reachable state.
C8_TickMonotone ==
    [][/\ tick_counter' >= tick_counter
       /\ get_current_task(Kernel).k.tick_counter = tick_counter
       /\ get_current_tick(Kernel).k.tick_counter = tick_counter
       /\ get_current_tick(Kernel).val = tick_counter
       /\ op'.name = "tick_update" =>
            /\ tick_counter' = tick_counter + op'.args[1]
            /\ is_running' =>
                 \A i \in DOMAIN task_list' :
                    task_list'[i].pend[1] = "Sleep"
                        => task_list'[i].pend[2] > tick_counter'
       /\ op'.name # "tick_update" => tick_counter' = tick_counter]_vars

\* a tick_update whose sweep woke a task at the new tick
C8_Witness ==
    /\ Returns /\ is_running
    /\ op = Call("tick_update", <<2>>)
    /\ tick_counter = 2
    /\ ret
    /\ \A i \in Indices : task_list[i].pend = NotPending

\* ---- C9 ------------------------------------------------------------------

TaskIn(k, id) == k.task_list[find_task_idx(k.task_list, id)]

\* C9: from every reachable state and for every live id, suspend(Some(id))
\* then resume(id) leaves the task Ready and NotPending, and a second
\* resume(id) changes neither the kernel nor the return value of the first.
C9_SuspendResumeRoundTrip ==
    Returns =>
        \A id \in LiveIds :
            LET s == suspend(Kernel, Some(id))
                r == resume(s.k, id)
                r1 == resume(Kernel, id)
                r2 == resume(r1.k, id)
            IN  /\ s.panic = NoPanic /\ r.panic = NoPanic
                /\ TaskIn(s.k, id).state = "Pending"
                /\ TaskIn(r.k, id).state = "Ready"
                /\ TaskIn(r.k, id).pend = NotPending
                /\ r1.panic = NoPanic
                /\ r2 = r1

\* resume has just acted on the current task of a running kernel, and a
\* suspend of it would switch it out
C9_Witness ==
    /\ Returns /\ is_running
    /\ op.name = "resume"
    /\ curr_task_id = Some(op.args[1])
    /\ Len(task_list) = 2
    /\ suspend(Kernel, curr_task_id).ret
    /\ TaskIn(suspend(Kernel, curr_task_id).k, op.args[1]).pend = Suspended
    /\ resume(suspend(Kernel, curr_task_id).k, op.args[1]).k = Kernel

\* ---- C10 -----------------------------------------------------------------

\* id is runnable and every other runnable task has a larger priority
StrictlySmallest(id) ==
    \E i \in RunnableIdx :
        /\ task_list[i].id = id
        /\ \A j \in RunnableIdx \ {i} : task_list[i].priority < task_list[j].priority

\* C10: on a running kernel resume(id), for id other than the current task,
\* returns true with next_task_id = Some(id) exactly when id has the strictly
\* smallest priority among the runnable tasks; otherwise next_task_id is not id.
C10_ResumeSelectsStrictlySmallest ==
    (Returns /\ is_running /\ op.name = "resume") =>
        LET id == op.args[1]
        IN  /\ curr_task_id # Some(id) =>
                ((ret /\ next_task_id = Some(id)) <=> StrictlySmallest(id))
            /\ ~StrictlySmallest(id) => next_task_id # Some(id)

\* ---- C11 -----------------------------------------------------------------

\* elapsed values that carry tick_counter past every wake tick of the model
AnyElapsed == 1..(MaxTick + 1)

\* C11: from every reachable state, resume(id) of a task whose pend is
\* Sleep(w) returns with the task Ready and NotPending, also when
\* tick_counter < w; and a tick_update, however far it advances the counter,
\* changes no field of a task that is NotPending - neither right after that
\* resume nor in any later state.
C11_ResumeDiscardsTimeout ==
    Returns =>
        \A i \in Indices :
            LET id == task_list[i].id
                r == resume(Kernel, id)
            IN  /\ task_list[i].pend[1] = "Sleep" =>
                    /\ r.panic = NoPanic
                    /\ TaskIn(r.k, id).state = "Ready"
                    /\ TaskIn(r.k, id).pend = NotPending
                    /\ \A e \in AnyElapsed :
                          TaskIn(tick_update(r.k, e).k, id) = TaskIn(r.k, id)
                /\ task_list[i].pend = NotPending =>
                    \A e \in AnyElapsed :
                        TaskIn(tick_update(Kernel, e).k, id) = task_list[i]

\* a task of a running kernel sleeps until a tick still ahead, and its resume
\* puts it forward as the next task
C11_Witness ==
    /\ Returns /\ is_running
    /\ \E i \in Indices :
          /\ task_list[i].pend[1] = "Sleep"
          /\ task_list[i].pend[2] > tick_counter + 1
          /\ curr_task_id # Some(task_list[i].id)
          /\ resume(Kernel, task_list[i].id).ret
          /\ resume(Kernel, task_list[i].id).k.next_task_id = Some(task_list[i].id)
          /\ TaskIn(tick_update(resume(Kernel, task_list[i].id).k, 1).k,
                    task_list[i].id).state = "Ready"

\* ---- C12 -----------------------------------------------------------------

\* the stack pointers of the tasks of a list, by position
StackPtrsOf(list) == [i \in DOMAIN list |-> list[i].stack_ptr]

\* C12: in every reachable state of a kernel that is not running, (a) create
\* stores the stack pointer it is given and no other call that returns
\* changes a stored stack pointer; (b) if some task is runnable, start
\* returns, sets is_running, and for a runnable task m of smallest priority
\* leaves curr_task_id = Some(m.id), next_task_id = None, m Running and every
\* other field of every TCB as it was, and returns m's stored stack pointer.
C12_StartInstallsSmallest ==
    (Returns /\ ~is_running) =>
        /\ \A id \in TaskIds, priority \in Priorities, stack_ptr \in StackPtrs :
              LET c == create(Kernel, id, priority, stack_ptr)
              IN  c.panic = NoPanic =>
                     c.k.task_list = Append(task_list,
                         Task(id, priority, stack_ptr, "Ready", NotPending))
        /\ \A id \in LiveIds :
              /\ StackPtrsOf(suspend(Kernel, Some(id)).k.task_list)
                    = StackPtrsOf(task_list)
              /\ StackPtrsOf(resume(Kernel, id).k.task_list) = StackPtrsOf(task_list)
        /\ \A e \in AnyElapsed :
              StackPtrsOf(tick_update(Kernel, e).k.task_list) = StackPtrsOf(task_list)
        /\ RunnableIdx # {} =>
              LET r == start(Kernel)
              IN  /\ r.panic = NoPanic
                  /\ r.k.is_running
                  /\ r.k.tick_counter = tick_counter
                  /\ r.k.next_task_id = None
                  /\ \E m \in MinRunnableIdx :
                        /\ r.k.curr_task_id = Some(task_list[m].id)
                        /\ r.k.task_list = [task_list EXCEPT ![m].state = "Running"]
                        /\ r.val = task_list[m].stack_ptr

\* start has installed the second of two tasks, whose priority is the
\* smaller, and returned its stack pointer; the first task is still Ready
C12_Witness ==
    /\ Returns /\ is_running
    /\ op.name = "start"
    /\ Len(task_list) = 2
    /\ task_list[2].priority < task_list[1].priority
    /\ task_list[1].state = "Ready"
    /\ task_list[2].state = "Running"
    /\ curr_task_id = Some(task_list[2].id)
    /\ next_task_id = None
    /\ task_list[1].stack_ptr = 1
    /\ task_list[2].stack_ptr = 2
    /\ ret_val = 2

\* ---- C13 -----------------------------------------------------------------

\* C13: from every reachable state with next_task_id = Some(n),
\* handle_context_switch returns n's stored stack pointer and leaves
\* curr_task_id = Some(n), next_task_id = None, task n Running, the former
\* current task Ready if it was Running and in its state otherwise (with the
\* stack pointer passed in, if any), and nothing else changed: no other
\* state or stack pointer, no id, priority or pend, not tick_counter.
C13_SwitchCommitsDecision ==
    (Returns /\ next_task_id # None) =>
        \A updated_stack_ptr \in OptionStackPtrs :
            LET n == unwrap(next_task_id)
                r == handle_context_switch(Kernel, updated_stack_ptr)
            IN  /\ r.panic = NoPanic
                /\ r.k.curr_task_id = Some(n)
                /\ r.k.next_task_id = None
                /\ r.k.tick_counter = tick_counter
                /\ r.k.is_running = is_running
                /\ r.val = TaskIn(Kernel, n).stack_ptr
                /\ DOMAIN r.k.task_list = Indices
                /\ \A i \in Indices :
                      LET old == task_list[i]
                          former == curr_task_id = Some(old.id)
                      IN  r.k.task_list[i] =
                            [old EXCEPT
                               !.state = IF old.id = n THEN "Running"
                                         ELSE IF former /\ old.state = "Running"
                                         THEN "Ready"
                                         ELSE old.state,
                               !.stack_ptr = IF former /\ updated_stack_ptr # None
                                             THEN unwrap(updated_stack_ptr)
                                             ELSE old.stack_ptr]

\* the current task has gone to sleep and the switch hands over to the next
\* task: the sleeper keeps Pending and its wake tick, and its stack pointer
\* is saved
C13_Witness ==
    /\ Returns /\ is_running
    /\ Len(task_list) = 2
    /\ curr_task_id = Some(task_list[1].id)
    /\ next_task_id = Some(task_list[2].id)
    /\ task_list[1].pend = Sleep(tick_counter + 1)
    /\ task_list[1].stack_ptr = 1
    /\ LET r == handle_context_switch(Kernel, Some(2))
       IN  /\ r.val = task_list[2].stack_ptr
           /\ r.k.task_list[1] = [task_list[1] EXCEPT !.stack_ptr = 2]
           /\ r.k.task_list[2].state = "Running"

\* ---- C14 -----------------------------------------------------------------

\* C14: from every reachable state with a current task c, delete(None) and
\* delete(Some(c)) return the same value and leave the same kernel: c's TCB
\* removed and the other TCBs as they were, curr_task_id = None; when a
\* remaining task is runnable the call returns true with next_task_id =
\* Some(m.id) for a remaining runnable task m of smallest priority, and
\* otherwise false with next_task_id = None.
C14_DeleteCurrentEitherWay ==
    (Returns /\ curr_task_id # None) =>
        LET c == unwrap(curr_task_id)
            r == delete(Kernel, None)
            rest == r.k.task_list
            runnable == {i \in DOMAIN rest : rest[i].state \in {"Ready", "Running"}}
        IN  /\ r = delete(Kernel, Some(c))
            /\ r.panic = NoPanic
            /\ rest = remove(task_list, IndexOf(c))
            /\ r.k.curr_task_id = None
            /\ r.k.tick_counter = tick_counter
            /\ IF runnable = {} THEN ~r.ret /\ r.k.next_task_id = None
               ELSE /\ r.ret
                    /\ \E m \in runnable :
                          /\ \A j \in runnable : rest[m].priority <= rest[j].priority
                          /\ r.k.next_task_id = Some(rest[m].id)

\* the running task is deleted while the other task, of larger priority, is
\* Ready: either form of the call makes that task the next one
C14_Witness ==
    /\ Returns /\ is_running
    /\ Len(task_list) = 2
    /\ curr_task_id = Some(task_list[1].id)
    /\ task_list[1].state = "Running"
    /\ task_list[2].state = "Ready"
    /\ task_list[1].priority < task_list[2].priority
    /\ next_task_id = None
    /\ delete(Kernel, curr_task_id).ret
    /\ delete(Kernel, curr_task_id).k.next_task_id = Some(task_list[2].id)
    /\ delete(Kernel, None).k.task_list = <<task_list[2]>>

\* ---- C15 -----------------------------------------------------------------

\* C15: in every reachable state of a running kernel, delete(Some(id)) of a
\* live id returns and removes exactly that TCB (stated for the states whose
\* priorities are pairwise distinct, so that no tie is involved).
C15_DeleteNeedsOnlyRunningAndTarget ==
    (Returns /\ is_running /\ PrioritiesDistinct(task_list)) =>
        \A id \in LiveIds :
            LET r == delete(Kernel, Some(id))
            IN  /\ r.panic = NoPanic
                /\ r.k.task_list = remove(task_list, IndexOf(id))

\* ---- C16 -----------------------------------------------------------------

\* the last call blocked or deleted the task that made it
PendedOrDeletedCurrent ==
    \/ op.name = "sleep" /\ op.args[1] > 0
    \/ op \in {Call("suspend", None), Call("delete", None)}

\* C16: in a program set up by init whose idle task neither blocks nor is
\* deleted, in every state after start the idle task is runnable; so a call
\* that pends or deletes the current task returns true, and the scheduler
\* selects the idle task only when every other live task is Pending (stated
\* for the states whose priorities are pairwise distinct, so that no tie is
\* involved).
C16_IdleAlwaysRunnable ==
    (Returns /\ is_running /\ PrioritiesDistinct(task_list)) =>
        /\ \E i \in RunnableIdx : task_list[i].id = IdleId
        /\ PendedOrDeletedCurrent => ret
        /\ (/\ AfterMutatingCall
            /\ \/ next_task_id = Some(IdleId)
               \/ curr_task_id = Some(IdleId) /\ next_task_id = None)
              => \A i \in Indices :
                    task_list[i].id # IdleId => task_list[i].state = "Pending"

\* ---- C17 -----------------------------------------------------------------

\* C17: kernel calls are serialized, so no observer reads an intermediate
\* kernel state: the value a get_current_tick returns is a value tick_counter
\* held between the beginning and the end of the call.
C17_ObserverReadsSerializedState ==
    (Returns /\ op.name = "get_current_tick") =>
        ret_val \in (op.args[1])..tick_counter

\* ---- C19 -----------------------------------------------------------------

\* C19: under every interleaving of wrapper calls, SysTick and PendSV, PendSV
\* never runs handle_context_switch with next_task_id = None, so the program
\* never halts on "No context switch required" (stated for the states whose
\* priorities are pairwise distinct and whose idle task is not pended, so
\* that neither a tie nor a misuse of the idle task is involved).
C19_TrapFindsDecision ==
    (/\ PrioritiesDistinct(task_list)
     /\ \E i \in Indices : task_list[i].id = IdleId /\ task_list[i].pend = NotPending)
        => panic # "No context switch required"

\* ---- C18 -----------------------------------------------------------------

\* C18: in every state of a kernel that is not running, curr_task_id and
\* next_task_id are None, and a create, suspend, resume or tick_update that
\* has just returned has returned false.
C18_NoSwitchBeforeStart ==
    ~is_running =>
        /\ curr_task_id = None
        /\ next_task_id = None
        /\ AfterMutatingCall => ~ret

\* before start, with the tick advanced and one of two tasks suspended, the
\* other was resumed: it is runnable, and still nothing is selected
C18_Witness ==
    /\ Returns /\ ~is_running
    /\ op.name = "resume"
    /\ tick_counter > 0
    /\ Len(task_list) = 2
    /\ task_list[1].priority > task_list[2].priority
    /\ task_list[1].pend = Suspended
    /\ task_list[2].id = op.args[1]
    /\ task_list[2].state = "Ready"
    /\ ~ret
    /\ next_task_id = None

\* ---- C20 -----------------------------------------------------------------

\* the runnable tasks of a kernel, by position
RunnableIn(k) ==
    {i \in DOMAIN k.task_list : k.task_list[i].state \in {"Ready", "Running"}}

\* C20: from every reachable state of a running kernel in which a task
\* sleeps until a tick w still ahead, a tick_update that leaves tick_counter
\* below w leaves the task as it is, and one that raises tick_counter to w or
\* past it returns with the task Ready and NotPending; if the task is then
\* the runnable task of smallest priority and is not the current task, that
\* same call returns true with next_task_id = Some(its id).
C20_WakeAtFirstPass ==
    (Returns /\ is_running) =>
        \A i \in Indices, e \in AnyElapsed :
            LET id == task_list[i].id
                w == task_list[i].pend[2]
                r == tick_update(Kernel, e)
                woken == TaskIn(r.k, id)
                smallest == \A j \in RunnableIn(r.k) :
                               r.k.task_list[j].id # id
                                  => woken.priority < r.k.task_list[j].priority
            IN  task_list[i].pend[1] = "Sleep" =>
                  /\ w > tick_counter
                  /\ r.panic = NoPanic
                  /\ IF tick_counter + e < w THEN woken = task_list[i]
                     ELSE /\ woken.state = "Ready"
                          /\ woken.pend = NotPending
                          /\ (smallest /\ curr_task_id # Some(id)) =>
                                r.ret /\ r.k.next_task_id = Some(id)

\* a task of smaller priority than the running one sleeps until the next
\* tick; tick_update(1) wakes it and makes it the next task
C20_Witness ==
    /\ Returns /\ is_running
    /\ Len(task_list) = 2
    /\ task_list[1].state = "Running"
    /\ task_list[2].pend = Sleep(tick_counter + 1)
    /\ task_list[2].priority < task_list[1].priority
    /\ next_task_id = None
    /\ tick_update(Kernel, 1).ret
    /\ tick_update(Kernel, 1).k.next_task_id = Some(task_list[2].id)
    /\ tick_update(Kernel, 1).k.task_list[2].state = "Ready"

\* ---- C21 -----------------------------------------------------------------

\* C21: a suspend that returns leaves its target Pending and Suspended,
\* whatever its pend was; and a Suspended task stays Pending and Suspended
\* and is not selected by any step other than a resume of it, a delete of
\* it, or a sleep it makes itself while it is still the current task.
C21_SuspendedUntilResumed ==
    [][/\ (op'.name = "suspend" /\ panic' = NoPanic) =>
            LET target == IF op'.args = None THEN curr_task_id ELSE op'.args
            IN  \E j \in DOMAIN task_list' :
                    /\ Some(task_list'[j].id) = target
                    /\ task_list'[j].state = "Pending"
                    /\ task_list'[j].pend = Suspended
       /\ \A i \in Indices :
            LET id == task_list[i].id
                on_it ==
                    \/ op' \in {Call("resume", <<id>>), Call("delete", Some(id))}
                    \/ op' = Call("delete", None) /\ curr_task_id = Some(id)
                    \/ op'.name = "sleep" /\ curr_task_id = Some(id)
            IN  (task_list[i].pend = Suspended /\ panic' = NoPanic /\ ~on_it)
                => /\ ~Selected(task_list', next_task_id', id)
                   /\ \E j \in DOMAIN task_list' :
                        /\ task_list'[j].id = id
                        /\ task_list'[j].state = "Pending"
                        /\ task_list'[j].pend = Suspended]_vars

\* the last tick of the model went by and the task of smallest priority is
\* still suspended behind the running one
C21_Witness ==
    /\ Returns /\ is_running
    /\ op.name = "tick_update"
    /\ tick_counter = MaxTick
    /\ Len(task_list) = 2
    /\ task_list[1].pend = Suspended
    /\ task_list[1].state = "Pending"
    /\ task_list[2].state = "Running"
    /\ task_list[1].priority < task_list[2].priority
    /\ next_task_id = None

\* ---- C22 -----------------------------------------------------------------

\* C22: from every reachable state with a current task c, sleep(0) returns
\* with c Ready and NotPending (the wake sweep of the same call has revived
\* it) and still the current task; if c's priority is smaller than that of
\* every other runnable task, the call returns false with next_task_id = None.
C22_SleepZeroIsRevived ==
    (Returns /\ curr_task_id # None) =>
        LET c == unwrap(curr_task_id)
            r == sleep(Kernel, 0)
            smallest == \A j \in RunnableIn(r.k) :
                           r.k.task_list[j].id # c
                              => TaskIn(r.k, c).priority < r.k.task_list[j].priority
        IN  /\ r.panic = NoPanic
            /\ TaskIn(r.k, c).state = "Ready"
            /\ TaskIn(r.k, c).pend = NotPending
            /\ r.k.curr_task_id = curr_task_id
            /\ r.k.tick_counter = tick_counter
            /\ smallest => (~r.ret /\ r.k.next_task_id = None)

\* the running task, of smaller priority than the other, Ready task, has
\* called sleep(0): it is Ready, still current, and nothing is selected
C22_Witness ==
    /\ Returns /\ is_running
    /\ op = Call("sleep", <<0>>)
    /\ ~ret
    /\ next_task_id = None
    /\ Len(task_list) = 2
    /\ curr_task_id = Some(task_list[1].id)
    /\ task_list[1].state = "Ready"
    /\ task_list[1].pend = NotPending
    /\ task_list[2].state = "Ready"
    /\ task_list[1].priority < task_list[2].priority

\* ---- C23 -----------------------------------------------------------------

\* every task of k other than c is Pending
OthersPending(k, c) ==
    \A i \in DOMAIN k.task_list :
        k.task_list[i].id # c => k.task_list[i].state = "Pending"

\* C23 as stated: right after the current task's sleep(d), d > 0, returned
\* false with no task runnable, every tick_update that reaches its wake tick
\* returns false with next_task_id = None (stated for the states whose
\* priorities are pairwise distinct, so that no tie is involved).
C23_Original ==
    (/\ Returns /\ curr_task_id # None
     /\ op.name = "sleep" /\ op.args[1] > 0 /\ ~ret
     /\ RunnableIdx = {}
     /\ PrioritiesDistinct(task_list)) =>
        \A e \in AnyElapsed :
            LET c == unwrap(curr_task_id)
                r == tick_update(Kernel, e)
            IN  tick_counter + e >= TaskIn(Kernel, c).pend[2] =>
                  /\ TaskIn(r.k, c).state = "Ready"
                  /\ TaskIn(r.k, c).pend = NotPending
                  /\ ~r.ret
                  /\ r.k.next_task_id = None

\* C23 amended: from every reachable state with a current task c, (a) while
\* every other task is Pending, sleep(d) with d > 0 and suspend(None) pend c,
\* return false and leave next_task_id = None and curr_task_id as it was;
\* (b) when c sleeps, a tick_update that reaches its wake tick returns with c
\* Ready and NotPending and still current, and it returns false with
\* next_task_id = None if every other task is still Pending after it.
C23_NoRunnableTask ==
    (Returns /\ curr_task_id # None) =>
        LET c == unwrap(curr_task_id)
        IN  /\ OthersPending(Kernel, c) =>
                /\ \A d \in Delays \ {0} :
                      LET r == sleep(Kernel, d)
                      IN  /\ r.panic = NoPanic /\ ~r.ret
                          /\ r.k.next_task_id = None
                          /\ r.k.curr_task_id = curr_task_id
                          /\ TaskIn(r.k, c).state = "Pending"
                          /\ TaskIn(r.k, c).pend = Sleep(tick_counter + d)
                /\ LET r == suspend(Kernel, None)
                   IN  /\ r.panic = NoPanic /\ ~r.ret
                       /\ r.k.next_task_id = None
                       /\ r.k.curr_task_id = curr_task_id
                       /\ TaskIn(r.k, c).state = "Pending"
                       /\ TaskIn(r.k, c).pend = Suspended
            /\ TaskIn(Kernel, c).pend[1] = "Sleep" =>
                \A e \in AnyElapsed :
                    LET r == tick_update(Kernel, e)
                    IN  tick_counter + e >= TaskIn(Kernel, c).pend[2] =>
                          /\ TaskIn(r.k, c).state = "Ready"
                          /\ TaskIn(r.k, c).pend = NotPending
                          /\ r.k.curr_task_id = curr_task_id
                          /\ OthersPending(r.k, c) =>
                                (~r.ret /\ r.k.next_task_id = None)

\* the current task slept with the only other task suspended, and the
\* tick_update that reached its wake tick has revived it: it is Ready and
\* still current, no task is Running, and nothing is selected
C23_Witness ==
    /\ Returns /\ is_running
    /\ op.name = "tick_update"
    /\ ~ret
    /\ next_task_id = None
    /\ Len(task_list) = 2
    /\ curr_task_id = Some(task_list[2].id)
    /\ task_list[2].state = "Ready"
    /\ task_list[1].pend = Suspended
    /\ task_list[1].priority < task_list[2].priority
    /\ RunningIdx = {}

\* ---- C24 -----------------------------------------------------------------

\* C24: from every reachable state, start panics when the kernel is running
\* and when no task is runnable; handle_context_switch panics when
\* next_task_id = None; before start, sleep, suspend(None), delete and
\* get_current_task panic; and delete, suspend and resume of an id that is
\* not in task_list panic and leave task_list as it was.
C24_ContractViolationsAreFatal ==
    Returns =>
        /\ is_running => start(Kernel).panic = "Kernel already running"
        /\ (~is_running /\ RunnableIdx = {}) =>
              start(Kernel).panic = "No tasks created"
        /\ next_task_id = None =>
              \A updated_stack_ptr \in OptionStackPtrs :
                  handle_context_switch(Kernel, updated_stack_ptr).panic
                      = "No context switch required"
        /\ ~is_running =>
              /\ \A d \in Delays : sleep(Kernel, d).panic = "Kernel not running"
              /\ suspend(Kernel, None).panic = "Kernel not running"
              /\ \A id \in OptionIds :
                    delete(Kernel, id).panic = "Kernel not running"
              /\ get_current_task(Kernel).panic = "Kernel not running"
        /\ \A id \in TaskIds \ LiveIds :
              /\ delete(Kernel, Some(id)).panic # NoPanic
              /\ delete(Kernel, Some(id)).k.task_list = task_list
              /\ suspend(Kernel, Some(id)).panic = "Task does not exist"
              /\ suspend(Kernel, Some(id)).k.task_list = task_list
              /\ resume(Kernel, id).panic = "Task does not exist"
              /\ resume(Kernel, id).k.task_list = task_list

\* start was called with both created tasks suspended, and halted
C24_Witness ==
    /\ op.name = "start"
    /\ panic = "No tasks created"
    /\ Len(task_list) = 2
    /\ \A i \in Indices : task_list[i].pend = Suspended
    /\ curr_task_id = None

\* ---- C25 -----------------------------------------------------------------

\* C25: in every step, a task that is live before and after it has another
\* stack_ptr afterwards only if the step is handle_context_switch(Some(sp))
\* and the task is the one curr_task_id named before it, and then the new
\* value is sp; and a handle_context_switch that returns returns the
\* stack_ptr that the incoming task had before the step.
C25_StackPtrFrame ==
    [][/\ \A i \in Indices, j \in DOMAIN task_list' :
            (/\ task_list'[j].id = task_list[i].id
             /\ task_list'[j].stack_ptr # task_list[i].stack_ptr)
                => /\ op'.name = "handle_context_switch"
                   /\ op'.args # None
                   /\ curr_task_id = Some(task_list[i].id)
                   /\ task_list'[j].stack_ptr = unwrap(op'.args)
       /\ (op'.name = "handle_context_switch" /\ panic' = NoPanic) =>
            \E i \in Indices :
                /\ next_task_id = Some(task_list[i].id)
                /\ ret_val' = task_list[i].stack_ptr]_vars

\* the current task was deleted, and the switch that followed was passed
\* stack pointer 2: the only task left still has, and was returned, 1
C25_Witness ==
    /\ Returns /\ is_running
    /\ op = Call("handle_context_switch", Some(2))
    /\ Len(task_list) = 1
    /\ task_list[1].state = "Running"
    /\ task_list[1].stack_ptr = 1
    /\ ret_val = 1

\* ---- C26 -----------------------------------------------------------------

\* curr_task_id and next_task_id of k name tasks of k, and the next task is
\* runnable and not the current one
RefsLive(k) ==
    /\ k.curr_task_id # None =>
          \E i \in DOMAIN k.task_list : k.task_list[i].id = unwrap(k.curr_task_id)
    /\ k.next_task_id # None =>
          /\ \E i \in RunnableIn(k) : k.task_list[i].id = unwrap(k.next_task_id)
          /\ k.next_task_id # k.curr_task_id

====
